---- MODULE Spec2Model ----
(***************************************************************************)
(* Model of src/pyt/hui.py: get_unique_filename (the filename allocator)   *)
(* and parse_html_to_json (the extraction pipeline).                       *)
(*                                                                         *)
(* The filesystem is a function from the paths that exist to their        *)
(* content.  A parsed document is the pre-order list of its nodes, each    *)
(* with its depth, so that "descendant" and "document order" are those of  *)
(* the tree BeautifulSoup builds.  Text is a sequence of tokens, WS being  *)
(* a run of whitespace, so that str.strip() is something that can differ   *)
(* from the identity.                                                      *)
(***************************************************************************)
EXTENDS Integers, Sequences, FiniteSets, TLC

VARIABLES
    fs,                 \* path |-> content, for every path that exists
    pc,                 \* position of the single thread of control
    caller,             \* who called get_unique_filename: "direct" | "pipeline"
    base_name,          \* get_unique_filename: argument
    extension,          \* get_unique_filename: argument
    counter,            \* get_unique_filename: local
    result,             \* get_unique_filename: last return value
    json_output_file,   \* parse_html_to_json: local
    soup,               \* parse_html_to_json: the parsed tree
    items,              \* parse_html_to_json: indices of the selected containers
    idx,                \* parse_html_to_json: position of the for loop in items
    nft_data,           \* parse_html_to_json: the collection
    out,                \* what the current run printed
    exc,                \* exception that left parse_html_to_json, or "none"
    origin,             \* history: the container each record of nft_data came from
    fs0,                \* history: fs when the current run started
    lastAlloc,          \* history: previous return of get_unique_filename, with fs then
    log,                \* history: direct calls, <<base, ext, path, created>>
    fsInit,             \* history: fs of the initial state
    runs,               \* number of runs of parse_html_to_json started
    calls               \* number of direct calls of get_unique_filename started

vars == <<fs, pc, caller, base_name, extension, counter, result, json_output_file,
          soup, items, idx, nft_data, out, exc, origin, fs0, lastAlloc, log,
          fsInit, runs, calls>>

allocVars == <<base_name, extension, counter, result, caller, lastAlloc>>
pipeVars  == <<json_output_file, soup, items, idx, nft_data, out, exc, origin, fs0, runs>>

-----------------------------------------------------------------------------
(* Bounds *)

MaxExisting == 2        \* initial files: candidates with suffix below this
MaxCalls    == 3        \* direct calls of get_unique_filename
MaxRuns     == 2        \* runs of parse_html_to_json
MaxCards    == 2        \* top-level fragments of the input document

-----------------------------------------------------------------------------
(* Strings *)

Digit(d) == CASE d = 0 -> "0" [] d = 1 -> "1" [] d = 2 -> "2" [] d = 3 -> "3"
              [] d = 4 -> "4" [] d = 5 -> "5" [] d = 6 -> "6" [] d = 7 -> "7"
              [] d = 8 -> "8" [] d = 9 -> "9"

RECURSIVE IntToStr(_)
IntToStr(n) == IF n < 10 THEN Digit(n) ELSE IntToStr(n \div 10) \o Digit(n % 10)

WS == " "

RECURSIVE LStrip(_)
LStrip(s) == IF s # <<>> /\ Head(s) = WS THEN LStrip(Tail(s)) ELSE s

RECURSIVE RStrip(_)
RStrip(s) == IF s # <<>> /\ s[Len(s)] = WS THEN RStrip(SubSeq(s, 1, Len(s) - 1)) ELSE s

Strip(s) == RStrip(LStrip(s))

-----------------------------------------------------------------------------
(* get_unique_filename *)

exists(f, path) == path \in DOMAIN f

BaseFilename(b, e) == b \o e

NewFilenameNoSep(b, c, e) == b \o IntToStr(c) \o e

new_filename(b, c, e) == b \o "_" \o IntToStr(c) \o e

FirstCounter == 1

NextCounterStuck(c) == c

NextCounterSkip(c) == c + 2

NextCounter(c) == c + 1

\* The k-th path of the sequence base+ext, base_1+ext, base_2+ext, ...
Candidate(b, e, k) == IF k = 0 THEN b \o e ELSE b \o "_" \o IntToStr(k) \o e

GufReturn(p) ==
    /\ result' = p
    /\ lastAlloc' = <<[path |-> p, fs |-> fs, base |-> base_name, ext |-> extension]>>
    /\ IF caller = "pipeline"
       THEN /\ json_output_file' = p
            /\ pc' = "read"
            /\ log' = log
       ELSE /\ json_output_file' = json_output_file
            /\ pc' = "returned"
            /\ log' = Append(log, [base |-> base_name, ext |-> extension,
                                   path |-> p, created |-> FALSE])

\* lines 10-13
GufProbeBase ==
    /\ pc = "guf_base"
    /\ IF ~exists(fs, BaseFilename(base_name, extension))
       THEN /\ GufReturn(BaseFilename(base_name, extension))
            /\ counter' = counter
       ELSE /\ counter' = FirstCounter
            /\ pc' = "guf_loop"
            /\ UNCHANGED <<result, lastAlloc, json_output_file, log>>
    /\ UNCHANGED <<fs, caller, base_name, extension, soup, items, idx, nft_data, out,
                   exc, origin, fs0, fsInit, runs, calls>>

\* lines 14-18, one iteration
GufProbeCounter ==
    /\ pc = "guf_loop"
    /\ IF ~exists(fs, new_filename(base_name, counter, extension))
       THEN /\ GufReturn(new_filename(base_name, counter, extension))
            /\ counter' = counter
       ELSE /\ counter' = NextCounter(counter)
            /\ pc' = "guf_loop"
            /\ UNCHANGED <<result, lastAlloc, json_output_file, log>>
    /\ UNCHANGED <<fs, caller, base_name, extension, soup, items, idx, nft_data, out,
                   exc, origin, fs0, fsInit, runs, calls>>

-----------------------------------------------------------------------------
(* Direct use of get_unique_filename: a caller that calls it repeatedly and *)
(* may create the file it was given before calling again.                  *)

Bases == {"a", "a_1"}
Exts  == {".x"}

OldFile == [kind |-> "old"]

CallGetUniqueFilename(b, e) ==
    /\ pc \in {"idle", "returned"}
    /\ calls < MaxCalls
    /\ calls' = calls + 1
    /\ base_name' = b
    /\ extension' = e
    /\ caller' = "direct"
    /\ pc' = "guf_base"
    /\ UNCHANGED <<fs, counter, result, lastAlloc, log, fsInit>>
    /\ UNCHANGED pipeVars

CreateReturned ==
    /\ pc = "returned"
    /\ ~exists(fs, result)
    /\ fs' = (result :> OldFile) @@ fs
    /\ log' = [log EXCEPT ![Len(log)].created = TRUE]
    /\ UNCHANGED <<pc, calls, fsInit>>
    /\ UNCHANGED allocVars
    /\ UNCHANGED pipeVars

AllocUniverse == {Candidate(b, e, k) : b \in Bases, e \in Exts, k \in 0..MaxExisting}

InitCommon ==
    /\ pc = "idle"
    /\ caller = "direct"
    /\ base_name = ""
    /\ extension = ""
    /\ counter = 0
    /\ result = ""
    /\ json_output_file = ""
    /\ soup = <<>>
    /\ items = <<>>
    /\ idx = 1
    /\ nft_data = <<>>
    /\ out = <<>>
    /\ exc = "none"
    /\ origin = <<>>
    /\ lastAlloc = <<>>
    /\ log = <<>>
    /\ runs = 0
    /\ calls = 0

InitAlloc ==
    /\ fs \in {[p \in S |-> OldFile] : S \in SUBSET AllocUniverse}
    /\ fs0 = fs
    /\ fsInit = fs
    /\ InitCommon

NextAlloc ==
    \/ \E b \in Bases, e \in Exts : CallGetUniqueFilename(b, e)
    \/ GufProbeBase
    \/ GufProbeCounter
    \/ CreateReturned

SpecAlloc == InitAlloc /\ [][NextAlloc]_vars

\* The interpreter runs the one thread until the call returns.
FairSpecAlloc == SpecAlloc /\ WF_vars(GufProbeBase) /\ WF_vars(GufProbeCounter)

-----------------------------------------------------------------------------
(* The parsed document *)

\* An optional value is <<>> (None) or <<v>>.
None == <<>>
Some(v) == <<v>>

Div(d, classes) == [tag |-> "div", cls |-> classes, depth |-> d, src |-> None, text |-> <<>>]
Span(d, classes) == [tag |-> "span", cls |-> classes, depth |-> d, src |-> None, text |-> <<>>]
Bold(d) == [tag |-> "b", cls |-> {}, depth |-> d, src |-> None, text |-> <<>>]
Img(d, classes, s) == [tag |-> "img", cls |-> classes, depth |-> d, src |-> s, text |-> <<>>]
Text(d, t) == [tag |-> "#text", cls |-> {}, depth |-> d, src |-> None, text |-> t]

ContainerClass == "NftItemContainer"
MediaClass     == "LibraryMedia"
NameClass      == "NftItemNameContent__name"
PriceClass     == "LibraryCryptoPrice__amount"

\* bs4 matches class_ against each class of a multi-valued class attribute
Matches(n, tag, c) == n.tag = tag /\ c \in n.cls

\* Whether node j lies below node p (p = 0 is the document itself)
IsDescendant(doc, p, j) ==
    /\ j \in (p + 1)..Len(doc)
    /\ p # 0 => \A k \in (p + 1)..j : doc[k].depth > doc[p].depth

\* Tag.find_all(tag, class_=c) on the whole document: matches in document order
RECURSIVE FindAllFrom(_, _, _, _)
FindAllFrom(doc, tag, c, j) ==
    IF j > Len(doc) THEN <<>>
    ELSE IF Matches(doc[j], tag, c) THEN <<j>> \o FindAllFrom(doc, tag, c, j + 1)
    ELSE FindAllFrom(doc, tag, c, j + 1)

find_all(doc, tag, c) == FindAllFrom(doc, tag, c, 1)

\* Tag.find(tag, class_=c) below node p: the first matching descendant, 0 for None
RECURSIVE FindFrom(_, _, _, _, _)
FindFrom(doc, p, tag, c, j) ==
    IF ~IsDescendant(doc, p, j) THEN 0
    ELSE IF Matches(doc[j], tag, c) THEN j
    ELSE FindFrom(doc, p, tag, c, j + 1)

find(doc, p, tag, c) == FindFrom(doc, p, tag, c, p + 1)

\* Tag.get(attr): the attribute's value, None when the tag does not carry it
get_src(n) == n.src

\* Tag.get_text(strip=True): every string below the tag is stripped, the empty
\* ones are dropped and the rest are joined with the empty separator
RECURSIVE GetTextFrom(_, _, _)
GetTextFrom(doc, p, j) ==
    IF ~IsDescendant(doc, p, j) THEN <<>>
    ELSE IF doc[j].tag = "#text" THEN Strip(doc[j].text) \o GetTextFrom(doc, p, j + 1)
    ELSE GetTextFrom(doc, p, j + 1)

get_text_strip(doc, p) == GetTextFrom(doc, p, p + 1)

-----------------------------------------------------------------------------
(* parse_html_to_json *)

html_file == "index.html"
OutputBase == "nft_collection"
OutputExt  == ".json"

UnknownName == <<"Unknown", WS, "Name">>
NotListed   == <<"Not", WS, "Listed">>

\* lines 41-42
ImageUrlAnyImg(doc, item) ==
    LET S == {k \in 1..Len(doc) : IsDescendant(doc, item, k) /\ doc[k].tag = "img"}
    IN  IF S = {} THEN None ELSE get_src(doc[CHOOSE k \in S : \A m \in S : k <= m])

ImageUrl(doc, item) ==
    LET img_tag == find(doc, item, "img", MediaClass)
    IN  IF img_tag # 0 THEN get_src(doc[img_tag]) ELSE None

\* lines 45-46
NameNoDefault(doc, item) ==
    LET name_tag == find(doc, item, "span", NameClass)
    IN  IF name_tag # 0 THEN get_text_strip(doc, name_tag) ELSE <<>>

Name(doc, item) ==
    LET name_tag == find(doc, item, "span", NameClass)
    IN  IF name_tag # 0 THEN get_text_strip(doc, name_tag) ELSE UnknownName

\* lines 49-50
Price(doc, item) ==
    LET price_tag == find(doc, item, "div", PriceClass)
    IN  IF price_tag # 0 THEN get_text_strip(doc, price_tag) ELSE NotListed

\* line 53: the truth value of image_url
KeepNotNone(image_url) == image_url # None

Keep(image_url) == image_url # None /\ image_url[1] # ""

\* lines 54-58
CollectFront(data, rec) == <<rec>> \o data

Collect(data, rec) == Append(data, rec)

\* image_url keeps its Python value: None, or Some(s) for the string s
Record(doc, item) ==
    [name |-> Name(doc, item), price |-> Price(doc, item),
     image_url |-> ImageUrl(doc, item)]

\* line 61
ShouldWriteAlways(data) == TRUE

ShouldWrite(data) == data # <<>>

\* line 62: the path opened for writing
WriteTargetFixed(path) == BaseFilename(OutputBase, OutputExt)

WriteTarget(path) == path

\* line 63
JsonDump(data) == [kind |-> "json", indent |-> 4, ensure_ascii |-> FALSE, value |-> data]

MsgNotFound  == [kind |-> "error", file |-> html_file]
MsgOk(n)     == [kind |-> "ok", count |-> n]
MsgSaved(p)  == [kind |-> "saved", path |-> p]
MsgWarn      == [kind |-> "warning"]

\* lines 29-31: what the handler of FileNotFoundError leaves behind
NotFoundReraise(o) == [pc |-> "raised", out |-> o, exc |-> "FileNotFoundError"]

OnFileNotFound(o) == [pc |-> "done", out |-> Append(o, MsgNotFound), exc |-> "none"]

\* lines 20-24, up to the call of get_unique_filename
ParseStart ==
    /\ pc \in {"idle", "done", "raised"}
    /\ runs < MaxRuns
    /\ runs' = runs + 1
    /\ fs0' = fs
    /\ base_name' = OutputBase
    /\ extension' = OutputExt
    /\ caller' = "pipeline"
    /\ pc' = "guf_base"
    /\ json_output_file' = ""
    /\ soup' = <<>>
    /\ items' = <<>>
    /\ idx' = 1
    /\ nft_data' = <<>>
    /\ origin' = <<>>
    /\ out' = <<>>
    /\ exc' = "none"
    /\ UNCHANGED <<fs, counter, result, lastAlloc, log, fsInit, calls>>

\* lines 26-37
ReadInput ==
    /\ pc = "read"
    /\ IF ~exists(fs, html_file)
       THEN /\ pc' = OnFileNotFound(out).pc
            /\ out' = OnFileNotFound(out).out
            /\ exc' = OnFileNotFound(out).exc
            /\ UNCHANGED <<soup, items>>
       ELSE IF fs[html_file].kind # "html"
       THEN /\ pc' = "raised"
            /\ exc' = "IsADirectoryError"
            /\ UNCHANGED <<out, soup, items>>
       ELSE /\ soup' = fs[html_file].tree
            /\ items' = find_all(fs[html_file].tree, "div", ContainerClass)
            /\ pc' = "loop"
            /\ UNCHANGED <<out, exc>>
    /\ UNCHANGED <<fs, caller, base_name, extension, counter, result, json_output_file,
                   idx, nft_data, origin, fs0, lastAlloc, log, fsInit, runs, calls>>

\* lines 39-58, one iteration
LoopStep ==
    /\ pc = "loop"
    /\ idx <= Len(items)
    /\ LET item == items[idx]
           image_url == ImageUrl(soup, item)
       IN  IF Keep(image_url)
           THEN /\ nft_data' = Collect(nft_data, Record(soup, item))
                /\ origin' = Collect(origin, item)
           ELSE UNCHANGED <<nft_data, origin>>
    /\ idx' = idx + 1
    /\ UNCHANGED <<fs, pc, caller, base_name, extension, counter, result,
                   json_output_file, soup, items, out, exc, fs0, lastAlloc, log,
                   fsInit, runs, calls>>

\* lines 60-68
Finish ==
    /\ pc = "loop"
    /\ idx > Len(items)
    /\ IF ShouldWrite(nft_data)
       THEN /\ fs' = [p \in DOMAIN fs \cup {WriteTarget(json_output_file)} |->
                        IF p = WriteTarget(json_output_file) THEN JsonDump(nft_data)
                        ELSE fs[p]]
            /\ out' = out \o <<MsgOk(Len(nft_data)), MsgSaved(json_output_file)>>
       ELSE /\ fs' = fs
            /\ out' = Append(out, MsgWarn)
    /\ pc' = "done"
    /\ UNCHANGED <<caller, base_name, extension, counter, result, json_output_file,
                   soup, items, idx, nft_data, exc, origin, fs0, lastAlloc, log,
                   fsInit, runs, calls>>

parse_html_to_json ==
    \/ ParseStart
    \/ ReadInput
    \/ LoopStep
    \/ Finish

-----------------------------------------------------------------------------
(* Input documents *)

C(d)  == Div(d, {ContainerClass})
I(d, s) == Img(d, {MediaClass}, s)
N(d)  == Span(d, {NameClass})
P(d)  == Div(d, {PriceClass})

CardShapes == <<
    \* the complete card of the spec's scenario
    <<C(0), I(1, Some("u1")), N(1), Text(2, <<WS, "Cool", WS, "Cat", WS>>),
      P(1), Text(2, <<"1.5", WS, "TON">>)>>,
    \* image only
    <<C(0), I(1, Some("u2"))>>,
    \* name and price, no image
    <<C(0), N(1), Text(2, <<"A">>), P(1), Text(2, <<"1">>)>>,
    \* media image without a src attribute, a second one with it
    <<C(0), I(1, None), I(1, Some("u1")), N(1), Text(2, <<"A">>)>>,
    \* media image whose src is the empty string
    <<C(0), I(1, Some("")), P(1), Text(2, <<"1">>)>>,
    \* an image without the media class before the media image; several classes
    <<Div(0, {"card", ContainerClass}), Img(1, {"avatar"}, Some("u3")),
      I(1, Some("u1")), P(1), Text(2, <<WS, "2">>)>>,
    \* only an image without the media class; the name class on a div
    <<C(0), Img(1, {}, Some("u3")), Div(1, {NameClass}), Text(2, <<"Z">>)>>,
    \* a container nested in a container
    <<C(0), C(1), I(2, Some("u1")), N(2), Text(3, <<"In">>),
      I(1, Some("u2")), N(1), Text(2, <<"Out">>)>>,
    \* a name in several strings, and an empty price
    <<C(0), I(1, Some("u2")), N(1), Text(2, <<"Cool", WS>>), Bold(2),
      Text(3, <<"Cat">>), P(1)>>,
    \* a name of whitespace only, two name spans
    <<C(0), N(1), Text(2, <<WS>>), N(1), Text(2, <<"B">>), I(1, Some("u1"))>>,
    \* a media image outside every container
    <<Div(0, {"banner"}), I(1, Some("u2"))>>
>>

RECURSIVE DocsOfLen(_)
DocsOfLen(n) ==
    IF n = 0 THEN {<<>>}
    ELSE {d \o CardShapes[k] : d \in DocsOfLen(n - 1), k \in DOMAIN CardShapes}

Docs == UNION {DocsOfLen(n) : n \in 0..MaxCards}

HtmlFile(doc) == [kind |-> "html", tree |-> doc]
Directory == [kind |-> "dir"]

OutputUniverse == {Candidate(OutputBase, OutputExt, k) : k \in 0..(MaxExisting - 1)}

InputChoices == {<<>>, <<Directory>>} \cup {<<HtmlFile(d)>> : d \in Docs}

InitialFs(S, inp) ==
    [p \in S \cup (IF inp = <<>> THEN {} ELSE {html_file}) |->
        IF p = html_file THEN inp[1] ELSE OldFile]

Init ==
    /\ fs \in {InitialFs(S, inp) : S \in SUBSET OutputUniverse, inp \in InputChoices}
    /\ fs0 = fs
    /\ fsInit = fs
    /\ InitCommon

Next ==
    \/ ParseStart
    \/ GufProbeBase
    \/ GufProbeCounter
    \/ ReadInput
    \/ LoopStep
    \/ Finish

Spec == Init /\ [][Next]_vars

-----------------------------------------------------------------------------
(* What the claims speak of, stated over the tree and the filesystem        *)

Range(s) == {s[k] : k \in DOMAIN s}

MinOf(S) == CHOOSE m \in S : \A n \in S : m <= n

RECURSIVE Ascending(_)
Ascending(S) == IF S = {} THEN <<>> ELSE <<MinOf(S)>> \o Ascending(S \ {MinOf(S)})

Below(doc, p) == {j \in 1..Len(doc) : IsDescendant(doc, p, j)}

FirstBelow(doc, p, tag, c) ==
    LET S == {j \in Below(doc, p) : doc[j].tag = tag /\ c \in doc[j].cls}
    IN  IF S = {} THEN 0 ELSE MinOf(S)

StringsBelow(doc, p) == Ascending({j \in Below(doc, p) : doc[j].tag = "#text"})

RECURSIVE Joined(_, _, _)
Joined(doc, js, each) ==
    IF js = <<>> THEN <<>>
    ELSE (IF each THEN Strip(doc[Head(js)].text) ELSE doc[Head(js)].text)
             \o Joined(doc, Tail(js), each)

\* the text below p: trimmed as a whole, or (each) every string trimmed, then joined
TextOf(doc, p, each) ==
    IF each THEN Joined(doc, StringsBelow(doc, p), TRUE)
    ELSE Strip(Joined(doc, StringsBelow(doc, p), FALSE))

MediaSrc(doc, item) ==
    LET im == FirstBelow(doc, item, "img", MediaClass)
    IN  IF im = 0 THEN None ELSE doc[im].src

NonEmptyUrl(u) == u \notin {None, Some("")}

ExpectedName(doc, item, each) ==
    LET nt == FirstBelow(doc, item, "span", NameClass)
    IN  IF nt = 0 THEN UnknownName ELSE TextOf(doc, nt, each)

ExpectedPrice(doc, item, each) ==
    LET pt == FirstBelow(doc, item, "div", PriceClass)
    IN  IF pt = 0 THEN NotListed ELSE TextOf(doc, pt, each)

Containers(doc) ==
    Ascending({j \in 1..Len(doc) : doc[j].tag = "div" /\ ContainerClass \in doc[j].cls})

Processed == {items[k] : k \in 1..(idx - 1)}

FirstFree(f, b, e) ==
    Candidate(b, e, MinOf({k \in 0..Cardinality(DOMAIN f) : ~exists(f, Candidate(b, e, k))}))

Changed(f, g) ==
    {p \in DOMAIN f \cup DOMAIN g : ~(p \in DOMAIN f /\ p \in DOMAIN g /\ f[p] = g[p])}

InputRead == exists(fs0, html_file) /\ fs0[html_file].kind = "html"

-----------------------------------------------------------------------------
(* Claims *)

\* C1: get_unique_filename returns the first path of base+ext, base_1+ext, ... that
\* does not exist: the returned path does not exist and every earlier candidate does.
C1_FirstFree ==
    (pc = "returned" /\ ~log[Len(log)].created) =>
        \E k \in 0..Cardinality(DOMAIN fs) :
            /\ result = Candidate(base_name, extension, k)
            /\ ~exists(fs, result)
            /\ \A j \in 0..(k - 1) : exists(fs, Candidate(base_name, extension, j))

C1_Witness ==
    /\ pc = "returned"
    /\ ~log[Len(log)].created
    /\ base_name = "a_1"
    /\ result = "a_1_2.x"
    /\ exists(fs, "a_1.x") /\ exists(fs, "a_1_1.x")

\* C2: from a directory with no file of the sequence, N calls with the same base and
\* extension, each returned file created before the next call, return exactly
\* base.ext, base_1.ext, ..., base_(N-1).ext, pairwise distinct.
C2_Premise ==
    /\ log # <<>>
    /\ \A n \in DOMAIN log : log[n].base = log[1].base /\ log[n].ext = log[1].ext
    /\ \A n \in 1..(Len(log) - 1) : log[n].created
    /\ \A k \in 0..(MaxExisting + MaxCalls) :
           ~exists(fsInit, Candidate(log[1].base, log[1].ext, k))

C2_Sequence ==
    C2_Premise =>
        /\ \A n \in DOMAIN log : log[n].path = Candidate(log[1].base, log[1].ext, n - 1)
        /\ \A m, n \in DOMAIN log : m # n => log[m].path # log[n].path

C2_Witness ==
    /\ C2_Premise
    /\ Len(log) = 3
    /\ log[3].path = "a_2.x"
    /\ DOMAIN fsInit # {}

\* C8: with finitely many files existing, get_unique_filename terminates and returns
\* a path: every call is followed by its return.
C8_Terminates == (pc \in {"guf_base", "guf_loop"}) ~> (pc = "returned")

C8_Witness ==
    /\ pc = "returned"
    /\ counter >= 3
    /\ Len(log) = 1
    /\ result = Candidate(base_name, extension, counter)

\* C3: when index.html does not exist the run prints the input-missing error and ends
\* normally, no exception leaves it, and the filesystem is what it was before the
\* run, although the output path had been allocated.
C3_MissingInput ==
    (runs >= 1 /\ ~exists(fs0, html_file)) =>
        /\ fs = fs0
        /\ pc \in {"guf_base", "guf_loop", "read", "done"}
        /\ exc = "none"
        /\ pc = "done" =>
              /\ out = <<MsgNotFound>>
              /\ json_output_file = FirstFree(fs0, OutputBase, OutputExt)
              /\ nft_data = <<>>

C3_Witness ==
    /\ pc = "done"
    /\ ~exists(fs0, html_file)
    /\ out = <<MsgNotFound>>
    /\ json_output_file = "nft_collection_1.json"
    /\ ~exists(fs, json_output_file)

\* C4: at every point of the loop and in every written output each record has a
\* non-empty image_url, and no record comes from a container without a descendant
\* image element of the media class.
C4_ImageUrlNonEmpty ==
    /\ \A k \in DOMAIN nft_data : NonEmptyUrl(nft_data[k].image_url)
    /\ \A k \in DOMAIN origin : FirstBelow(soup, origin[k], "img", MediaClass) # 0
    /\ \A p \in DOMAIN fs :
           fs[p].kind = "json" =>
               \A k \in DOMAIN fs[p].value : NonEmptyUrl(fs[p].value[k].image_url)

C4_Witness ==
    /\ pc = "done"
    /\ nft_data # <<>>
    /\ exists(fs, json_output_file)
    /\ \E it \in Processed :
           /\ FirstBelow(soup, it, "img", MediaClass) = 0
           /\ FirstBelow(soup, it, "span", NameClass) # 0
           /\ FirstBelow(soup, it, "div", PriceClass) # 0
           /\ it \notin Range(origin)

\* C5 (as stated): name is the trimmed text of the first name span, or "Unknown Name";
\* price is the trimmed text of the first price div, or "Not Listed".
C5_TrimmedWhole ==
    \A k \in DOMAIN nft_data :
        /\ nft_data[k].name = ExpectedName(soup, origin[k], FALSE)
        /\ nft_data[k].price = ExpectedPrice(soup, origin[k], FALSE)

\* C5 (amended): name is the strings of the first name span, each trimmed, joined
\* without a separator, or "Unknown Name" when there is no name span; price likewise
\* with the first price div and "Not Listed"; a missing name or price element neither
\* aborts the pass nor drops the record.
C5_FieldDefaults ==
    /\ \A k \in DOMAIN nft_data :
           /\ nft_data[k].name = ExpectedName(soup, origin[k], TRUE)
           /\ nft_data[k].price = ExpectedPrice(soup, origin[k], TRUE)
    /\ pc \in {"loop", "done"} => exc = "none"
    /\ \A it \in Processed :
           NonEmptyUrl(MediaSrc(soup, it)) => it \in Range(origin)

C5_Witness ==
    /\ pc = "done"
    /\ \E k \in DOMAIN nft_data :
           /\ nft_data[k].name = UnknownName
           /\ nft_data[k].price = <<"2">>
    /\ \E k \in DOMAIN nft_data :
           /\ nft_data[k].name = <<"Cool", "Cat">>
           /\ nft_data[k].price = <<>>

\* C6: a file is written if and only if the input was read and the collection is not
\* empty: with an empty collection the run warns and changes no file; otherwise it
\* writes exactly one file, at the path the allocator returned at the start.
C6_WriteIffNonEmpty ==
    IF pc = "done" /\ nft_data # <<>>
    THEN /\ InputRead
         /\ Changed(fs, fs0) = {json_output_file}
         /\ json_output_file = FirstFree(fs0, OutputBase, OutputExt)
         /\ fs[json_output_file] = JsonDump(nft_data)
         /\ out = <<MsgOk(Len(nft_data)), MsgSaved(json_output_file)>>
    ELSE /\ Changed(fs, fs0) = {}
         /\ (pc = "done" /\ InputRead) => out = <<MsgWarn>>

C6_Witness ==
    /\ pc = "done"
    /\ InputRead
    /\ items # <<>>
    /\ nft_data = <<>>
    /\ out = <<MsgWarn>>
    /\ runs = 2

\* C7: the collection is the subsequence, in document order, of the selected
\* containers that pass the image filter: one record per passing container, nested
\* containers counted on their own, nothing reordered, merged or de-duplicated.
C7_DocumentOrder ==
    /\ pc \in {"loop", "done"} => items = Containers(soup)
    /\ origin = Ascending({it \in Processed : NonEmptyUrl(MediaSrc(soup, it))})
    /\ Len(nft_data) = Len(origin)
    /\ \A k \in DOMAIN nft_data :
           nft_data[k] = [name |-> ExpectedName(soup, origin[k], TRUE),
                          price |-> ExpectedPrice(soup, origin[k], TRUE),
                          image_url |-> MediaSrc(soup, origin[k])]
    /\ (pc = "done" /\ nft_data # <<>>) => fs[json_output_file].value = nft_data

C7_Witness ==
    /\ pc = "done"
    /\ Len(nft_data) = 3
    /\ nft_data[1] = nft_data[2]
    /\ nft_data[3].image_url = Some("u2")
    /\ soup[origin[2]].depth = 1

\* C9 (as stated): a selected container is appended if and only if its image_url,
\* the src of its first descendant media image or null, is not null.
C9_NullCheck ==
    \A it \in Processed : it \in Range(origin) <=> MediaSrc(soup, it) # None

\* C9 (amended): a selected container is appended if and only if its image_url is
\* neither null nor the empty string.
C9_TruthyCheck ==
    \A it \in Processed : it \in Range(origin) <=> NonEmptyUrl(MediaSrc(soup, it))

C9_Witness ==
    /\ pc = "done"
    /\ \E it \in Processed : MediaSrc(soup, it) = Some("") /\ it \notin Range(origin)
    /\ \E it \in Processed : MediaSrc(soup, it) = Some("u1") /\ it \in Range(origin)

\* C10: a run never overwrites, truncates or deletes a file that existed when it
\* started; it writes only the allocated path, absent at allocation and still absent
\* when written; get_unique_filename leaves the filesystem unchanged, and called
\* again with the filesystem unchanged it returns the same path.
C10_Step ==
    /\ pc \in {"guf_base", "guf_loop"} => fs' = fs
    /\ fs' # fs =>
          /\ ~exists(fs, json_output_file)
          /\ ~exists(lastAlloc[1].fs, json_output_file)
          /\ json_output_file = lastAlloc[1].path
          /\ Changed(fs', fs) = {json_output_file}
    /\ \A p \in DOMAIN fs0' : exists(fs', p) /\ fs'[p] = fs0'[p]
    /\ (pc \in {"guf_base", "guf_loop"} /\ pc' = "read" /\ lastAlloc # <<>>
            /\ lastAlloc[1].fs = fs) => result' = lastAlloc[1].path

C10_NoOverwrite == [][C10_Step]_vars

C10_Witness ==
    /\ pc = "done"
    /\ runs = 2
    /\ exists(fs0, "nft_collection.json")
    /\ fs0["nft_collection.json"].kind = "json"
    /\ exists(fs0, "nft_collection_1.json")
    /\ Changed(fs, fs0) = {"nft_collection_2.json"}

====
